---- MODULE Spec2Model ----
(***************************************************************************)
(* Risk & Customer Insights: the ETL load (src/etl.py), the anomaly        *)
(* scorer (src/anomaly.py), the request handlers of the API (src/app.py)   *)
(* and the batch orchestrator (src/pipeline.py).                           *)
(*                                                                         *)
(* Data frames and tables are sequences of records.  Dates are day         *)
(* numbers, timestamps and the wall clock count seconds.  Contamination    *)
(* is a number of                                                          *)
(* hundredths (cn / CDen), and every quantile is kept as an exact integer  *)
(* scaled by CDen, so that np.quantile's linear interpolation is computed  *)
(* without rounding.  A float feature is an exact fraction, with NaN and   *)
(* inf as 0 / 0 and 1 / 0.                                                 *)
(*                                                                         *)
(* Specifications: SpecScore (the scorer and /detect_anomaly on one        *)
(* table), Spec (runs of pipeline.py), SpecApi (/score_default and         *)
(* /predict_churn beside an ETL load), SpecReload (/detect_anomaly beside  *)
(* an ETL load), SpecEtl (the ETL on arbitrary raw files) and SpecDelay    *)
(* (/score_default over transactions at different times of the day) and  *)
(* SpecDash (the Streamlit page of anomaly.py).                            *)
(***************************************************************************)
EXTENDS Integers, Sequences, FiniteSets, TLC

\* ------------------------------------------------------------------------
\* Bounds of the model
\* ------------------------------------------------------------------------
MaxTx    == 4      \* rows of transactions.csv in the scoring specification
MaxScore == 2      \* raw isolation scores range over 0..MaxScore

\* Contamination is cn / CDen
CDen == 100

\* Contamination values tried: 0 and 60 are outside (0, 0.5]
Contaminations == {0, 5, 34, 50, 60}

\* pandas NaN / None in an id column
Null == -1

\* Timedelta.days counts whole days
SecondsPerDay == 86400

\* the day number of an instant (of the wall clock, of a timestamp)
DayOf(t) == t \div SecondsPerDay

\* midnight at the start of day n, as an instant
Midnight(n) == n * SecondsPerDay

\* the first run starts in the last second of day 1, the day of the
\* transactions
FirstRunAt == 2 * SecondsPerDay - 1

VARIABLES
    raw_accounts,       \* data/raw/accounts.csv
    raw_transactions,   \* data/raw/transactions.csv
    raw_kyc,            \* data/raw/kyc.csv
    dim_clients,        \* datamart tables (risk_insights.db)
    dim_accounts,
    dim_time,
    fact_transactions,
    iso_raw,            \* raw isolation score that the forest grown with
                        \* random_state = 42 on the table built from the raw
                        \* files gives to each feature row
    st_cache,           \* memo of anomaly.load_data (st.cache_data)
    scored,             \* outcome of the latest scoring call
    prev_scored,        \* outcome of the scoring call before it
    pc,                 \* pipeline.py: the section about to run
    history,            \* sections completed by the current run, in order
    features_def,       \* pipeline.py globals
    features_churn,
    df_anom,
    report,
    files,              \* report files on disk: path -> content
    clock,              \* UTC wall clock, in seconds
    error,              \* what the failed run surfaced
    runs,               \* runs started so far
    prev_features_churn,\* features_churn of the latest earlier run that
                        \* computed it
    etl_pc,             \* python src/etl.py: the table about to be written
    served              \* outcome of the latest /score_default or
                        \* /predict_churn request

data_vars  == << raw_accounts, raw_transactions, raw_kyc, dim_clients,
                 dim_accounts, dim_time, fact_transactions, iso_raw >>
score_vars == << st_cache, scored, prev_scored >>
run_vars   == << pc, history, features_def, features_churn, df_anom,
                 report, error, runs, prev_features_churn >>
serve_vars == << etl_pc, served >>
vars       == << data_vars, score_vars, run_vars, serve_vars, files, clock >>

\* ------------------------------------------------------------------------
\* Sequence helpers (pandas / numpy primitives)
\* ------------------------------------------------------------------------
RECURSIVE KeepAt(_, _, _)
\* df.loc[mask]: the rows whose position is in S, order kept
KeepAt(seq, S, i) ==
    IF i > Len(seq) THEN << >>
    ELSE (IF i \in S THEN << seq[i] >> ELSE << >>) \o KeepAt(seq, S, i + 1)

\* positions of the first occurrence of every key (drop_duplicates keep="first")
FirstOcc(keys) ==
    { i \in DOMAIN keys : \A j \in DOMAIN keys : j < i => keys[j] # keys[i] }

RECURSIVE InsertAsc(_, _)
InsertAsc(x, s) ==
    IF s = << >> THEN << x >>
    ELSE IF x < Head(s) THEN << x >> \o s
    ELSE << Head(s) >> \o InsertAsc(x, Tail(s))

RECURSIVE SortAsc(_)
\* np.sort of a vector of numbers
SortAsc(s) ==
    IF s = << >> THEN << >>
    ELSE InsertAsc(s[Len(s)], SortAsc(SubSeq(s, 1, Len(s) - 1)))

Abs(x) == IF x < 0 THEN -x ELSE x

\* ------------------------------------------------------------------------
\* etl.py
\* ------------------------------------------------------------------------
clean_accounts(df) ==
    KeepAt(df, FirstOcc([i \in DOMAIN df |-> df[i].account_id]), 1)

\* duplicates dropped, the sign of the amounts kept
clean_transactions_signed(df) ==
    KeepAt(df, FirstOcc([i \in DOMAIN df |-> df[i].transaction_id]), 1)

clean_transactions(df) ==
    LET d == KeepAt(df, FirstOcc([i \in DOMAIN df |-> df[i].transaction_id]), 1)
    IN  [i \in DOMAIN d |-> [d[i] EXCEPT !.amount = Abs(@)]]

clean_kyc(df) ==
    KeepAt(df, FirstOcc([i \in DOMAIN df |-> df[i].client_id]), 1)

\* unique transaction dates in order of first appearance
populate_time_dimension(df_transactions) ==
    LET dates == [i \in DOMAIN df_transactions |->
                    DayOf(df_transactions[i].transaction_date)]
        u     == KeepAt(dates, FirstOcc(dates), 1)
    IN  [i \in DOMAIN u |-> [date |-> u[i]]]

\* dict(zip(account_id, client_id)): the last row of a key wins
ClientOfAccount(df_accounts, a) ==
    LET S == { i \in DOMAIN df_accounts : df_accounts[i].account_id = a }
    IN  IF S = {} THEN Null
        ELSE df_accounts[CHOOSE i \in S : \A j \in S : j <= i].client_id

TimeIdOf(df_time, d) ==
    LET S == { i \in DOMAIN df_time : df_time[i].date = d }
    IN  IF S = {} THEN Null ELSE CHOOSE i \in S : TRUE

\* the fact_transactions frame written by load_data
FactRows(df_accounts, df_transactions) ==
    LET df_time == populate_time_dimension(df_transactions)
    IN  [i \in DOMAIN df_transactions |->
            [transaction_id   |-> df_transactions[i].transaction_id,
             account_id       |-> df_transactions[i].account_id,
             amount           |-> df_transactions[i].amount,
             transaction_date |-> df_transactions[i].transaction_date,
             time_id          |-> TimeIdOf(df_time,
                                           DayOf(df_transactions[i].transaction_date)),
             client_id        |-> ClientOfAccount(df_accounts, df_transactions[i].account_id)]]

\* ------------------------------------------------------------------------
\* anomaly.py
\* ------------------------------------------------------------------------
\* a count of transaction_id that is not grouped by account_id
tx_per_account_ungrouped(df_tx, a) == Len(df_tx)

\* groupby("account_id")["transaction_id"].count()
tx_per_account(df_tx, a) ==
    Cardinality({ i \in DOMAIN df_tx : df_tx[i].account_id = a })

\* load_data without its memo: the table joined with the per-account count
load_data_frame(df_tx) ==
    [i \in DOMAIN df_tx |->
        df_tx[i] @@ [tx_per_account |-> tx_per_account(df_tx, df_tx[i].account_id)]]

\* X = df[["amount", "tx_per_account"]]
FeatureRow(r) == << r.amount, r.tx_per_account >>

FeatureRows(df) == { FeatureRow(df[i]) : i \in DOMAIN df }

\* np.quantile(x, qn / CDen), method "linear", times CDen
np_quantile(x, qn) ==
    LET s   == SortAsc(x)
        n   == Len(s)
        pos == (n - 1) * qn
        lo  == pos \div CDen
        fr  == pos % CDen
        hi  == IF lo + 1 <= n - 1 THEN lo + 1 ELSE lo
    IN  CDen * s[lo + 1] + fr * (s[hi + 1] - s[lo + 1])

\* IsolationForest accepts contamination in (0, 0.5] only
ContaminationValid(cn) == cn > 0 /\ 2 * cn <= CDen

\* the exceptions IsolationForest.fit can raise, none when it fits.  The
\* parameter check raises InvalidParameterError in scikit-learn >= 1.2 and
\* ValueError before; a frame without rows is refused with ValueError.  The
\* repository pins no version.
IsoFitErrors(df, cn) ==
    IF ~ContaminationValid(cn) THEN {"InvalidParameterError", "ValueError"}
    ELSE IF Len(df) = 0 THEN {"ValueError"}
    ELSE {}

\* -iso.decision_function(X), times CDen: the raw isolation score of each row
\* shifted by offset_, the contamination-percentile of the raw scores
IsoScores(df, cn) ==
    LET a == [i \in DOMAIN df |-> iso_raw[FeatureRow(df[i])]]
        q == np_quantile(a, CDen - cn)
    IN  [i \in DOMAIN df |-> CDen * a[i] - q]

ThresholdAtContamination(scores, cn) == np_quantile(scores, cn)

\* threshold = np.quantile(scores, 1 - contamination), times CDen
Threshold(scores, cn) == np_quantile(scores, CDen - cn)

\* df["anomaly_score"] >= threshold
FlagStrict(score, threshold) == CDen * score > threshold

Flag(score, threshold) == CDen * score >= threshold

\* the outcomes of detect_anomalies(df, contamination): the scored frame, or
\* the exception that escapes from iso.fit
detect_anomalies(df, cn) ==
    LET errs == IsoFitErrors(df, cn)
    IN  IF errs # {}
        THEN { [status |-> "error", error |-> e, rows |-> << >>] : e \in errs }
        ELSE LET scores    == IsoScores(df, cn)
                 threshold == Threshold(scores, cn)
             IN  { [status |-> "ok", error |-> "none",
                    rows   |-> [i \in DOMAIN df |->
                                  df[i] @@ [anomaly_score |-> scores[i],
                                            is_anomaly    |-> Flag(scores[i], threshold)]]] }

\* load_data behind @st.cache_data: the first call of a process reads the
\* table, later calls return the memoized frame
load_data == IF st_cache = << >> THEN load_data_frame(fact_transactions)
             ELSE st_cache[1]

RECURSIVE InsertDesc(_, _)
InsertDesc(r, s) ==
    IF s = << >> THEN << r >>
    ELSE IF r.anomaly_score > Head(s).anomaly_score THEN << r >> \o s
    ELSE << Head(s) >> \o InsertDesc(r, Tail(s))

RECURSIVE SortDesc(_)
\* sort_values("anomaly_score", ascending=False)
SortDesc(s) ==
    IF s = << >> THEN << >>
    ELSE InsertDesc(s[1], SortDesc(Tail(s)))

Flagged(rows) == KeepAt(rows, { i \in DOMAIN rows : rows[i].is_anomaly }, 1)

\* .head(n)
HeadN(s, n) == SubSeq(s, 1, IF Len(s) < n THEN Len(s) ELSE n)

\* detect_anomalies(df, contamination=0.05)
PipelineContamination == 5

\* app.py: the endpoint returns the top 100 anomalies
TopAnomalies == 100

NoCall == [fn |-> "none", contamination |-> 0, input |-> << >>,
           status |-> "none", error |-> "none", http |-> 0, rows |-> << >>]

\* no /score_default or /predict_churn request answered yet
NoRequest == [fn |-> "none", id |-> 0, http |-> 0, error |-> "none",
              invoked |-> FALSE, tx_count |-> 0, total_days |-> Null,
              X |-> << >>, score |-> << >>]

\* a caller scores the loaded frame: detect_anomalies(load_data().copy(), c)
\* the latest successful detect_anomalies call stays in prev_scored
Remember ==
    prev_scored' = IF scored.fn = "detect_anomalies" /\ scored.status = "ok"
                   THEN scored ELSE prev_scored

ScoreCall(cn) ==
    LET df == load_data
    IN  /\ pc = "idle"
        /\ st_cache' = << df >>
        /\ \E res \in detect_anomalies(df, cn) :
              scored' = [fn |-> "detect_anomalies", contamination |-> cn,
                         input |-> df, status |-> res.status,
                         error |-> res.error, http |-> 0, rows |-> res.rows]
        /\ Remember
        /\ UNCHANGED << data_vars, run_vars, serve_vars, files, clock >>

\* POST /detect_anomaly; an exception in the handler is answered with 500
detect_anomaly(cn) ==
    LET df == load_data
    IN  /\ pc = "idle"
        /\ st_cache' = << df >>
        /\ \E df_res \in detect_anomalies(df, cn) :
              scored' = [fn |-> "detect_anomaly", contamination |-> cn,
                         input |-> df, status |-> df_res.status,
                         error |-> df_res.error,
                         http |-> IF df_res.status = "ok" THEN 200 ELSE 500,
                         rows |-> HeadN(SortDesc(Flagged(df_res.rows)), TopAnomalies)]
        /\ Remember
        /\ UNCHANGED << data_vars, run_vars, serve_vars, files, clock >>

\* ------------------------------------------------------------------------
\* Inputs
\* ------------------------------------------------------------------------
AccountIds == {1, 2}
Amounts    == {1, 2}

\* transactions.csv with n rows, ids 1..n, all at 00:00 of day 1.  The rows are
\* listed account by account and by amount within an account: every
\* multiset of (account, amount) rows is covered, in one row order.
RawTransactions(n) ==
    { tx \in [1..n -> [transaction_id : 1..n, account_id : AccountIds,
                       amount : Amounts, transaction_date : {Midnight(1)}]] :
        /\ \A i \in 1..n : tx[i].transaction_id = i
        /\ \A i \in 1..(n - 1) :
              \/ tx[i].account_id < tx[i + 1].account_id
              \/ /\ tx[i].account_id = tx[i + 1].account_id
                 /\ tx[i].amount <= tx[i + 1].amount }

\* the datamart etl.main leaves behind
EtlTables(accts, txs, kyc) ==
    LET a == clean_accounts(accts)
        t == clean_transactions(txs)
        k == clean_kyc(kyc)
    IN  [dim_clients       |-> k,
         dim_accounts      |-> a,
         dim_time          |-> populate_time_dimension(t),
         fact_transactions |-> FactRows(a, t)]

\* the forests random_state = 42 can give for a table: one raw score per
\* feature row.  The scorer subtracts offset_, a quantile of the raw scores,
\* so only their differences count: the lowest raw score is taken as 0.
Forests(df_tx) ==
    { f \in [FeatureRows(load_data_frame(df_tx)) -> 0..MaxScore] :
        DOMAIN f # {} => \E r \in DOMAIN f : f[r] = 0 }

IdleRun ==
    /\ pc = "idle" /\ history = << >> /\ features_def = << >>
    /\ features_churn = << >> /\ df_anom = << >> /\ report = << >>
    /\ error = [type |-> "none", stage |-> "none", cause |-> "none"]
    /\ runs = 0 /\ prev_features_churn = << >>
    /\ files = << >> /\ clock = FirstRunAt

\* A serving process over a datamart that an ETL load has filled
InitScore ==
    /\ raw_accounts = << [account_id |-> 1, client_id |-> 1, opened_date |-> 1],
                         [account_id |-> 2, client_id |-> 2, opened_date |-> 1] >>
    /\ raw_kyc = << [client_id |-> 1], [client_id |-> 2] >>
    /\ \E n \in 0..MaxTx : raw_transactions \in RawTransactions(n)
    /\ LET db == EtlTables(raw_accounts, raw_transactions, raw_kyc)
       IN  /\ dim_clients = db.dim_clients
           /\ dim_accounts = db.dim_accounts
           /\ dim_time = db.dim_time
           /\ fact_transactions = db.fact_transactions
    /\ iso_raw \in Forests(fact_transactions)
    /\ st_cache = << >>
    /\ scored = NoCall
    /\ prev_scored = NoCall
    /\ etl_pc = "idle"
    /\ served = NoRequest
    /\ IdleRun

\* contamination values sent to the endpoint: its default and one that is
\* out of range
EndpointContaminations == {PipelineContamination, 60}

NextScore ==
    \/ \E cn \in Contaminations : ScoreCall(cn)
    \/ \E cn \in EndpointContaminations : detect_anomaly(cn)

SpecScore == InitScore /\ [][NextScore]_vars

\* ------------------------------------------------------------------------
\* Floating-point values
\* ------------------------------------------------------------------------
RECURSIVE GCD(_, _)
GCD(a, b) == IF b = 0 THEN a ELSE GCD(b, a % b)

\* float64 NaN (0 / 0) and +inf (1 / 0)
NaN == [num |-> 0, den |-> 0, root |-> 1]
Inf == [num |-> 1, den |-> 0, root |-> 1]

\* the float n / d, kept exact as a reduced fraction; numpy and pandas
\* division gives inf or NaN for a zero divisor and raises nothing
Real(n, d) ==
    IF d = 0
    THEN (IF n = 0 THEN NaN
          ELSE [num |-> IF n > 0 THEN 1 ELSE -1, den |-> 0, root |-> 1])
    ELSE LET g == GCD(Abs(n), Abs(d))
             sg == IF d < 0 THEN -1 ELSE 1
         IN  [num |-> (sg * n) \div g, den |-> (sg * d) \div g, root |-> 1]

isna(x) == x = NaN

isinf(x) == "den" \in DOMAIN x /\ x.den = 0 /\ x.num # 0

IsSquare(n) == \E k \in 0..n : k * k = n

ISqrt(n) == CHOOSE k \in 0..n : k * k = n

\* the square root of a fraction >= 0: a fraction when both terms are
\* squares, else kept under the root
Sqrt(x) ==
    IF IsSquare(x.num) /\ IsSquare(x.den)
    THEN [num |-> ISqrt(x.num), den |-> ISqrt(x.den), root |-> 1]
    ELSE [num |-> x.num, den |-> x.den, root |-> 2]

RECURSIVE Sum(_)
Sum(s) == IF s = << >> THEN 0 ELSE Head(s) + Sum(Tail(s))

\* Series.mean(): NaN for an empty series
mean(x) == Real(Sum(x), Len(x))

\* the population standard deviation (ddof = 0), 0 for a single value
std_population(x) ==
    LET n  == Len(x)
        sq == Sum([i \in DOMAIN x |-> x[i] * x[i]])
    IN  IF n < 1 THEN NaN
        ELSE Sqrt(Real(n * sq - Sum(x) * Sum(x), n * n))

\* Series.std(): the sample standard deviation (ddof = 1), NaN below 2 values
std(x) ==
    LET n  == Len(x)
        sq == Sum([i \in DOMAIN x |-> x[i] * x[i]])
    IN  IF n < 2 THEN NaN
        ELSE Sqrt(Real(n * sq - Sum(x) * Sum(x), n * (n - 1)))

\* d.diff().dt.days.dropna().mean() over the timestamps of a group, which
\* the caller has sorted: .dt.days keeps the whole days of each consecutive
\* difference, and the mean is taken over these
avg_delay(d) ==
    mean([i \in 1..(Len(d) - 1) |-> (d[i + 1] - d[i]) \div SecondsPerDay])

\* df_time["date"].nunique(): the distinct dates that are not null
nunique_dates(df_time) ==
    Cardinality({ df_time[i].date : i \in DOMAIN df_time } \ {Null})

\* the columns of the default-model matrix, in the order of the code
DefaultColumns == << "avg_amount", "std_amount", "tx_count_per_day",
                     "avg_delay_days" >>

\* groupby("account_id").agg(...) for one account, then tx_count / total_days
DefaultFeatures(df_tx, total_days, a) ==
    LET S       == { i \in DOMAIN df_tx : df_tx[i].account_id = a }
        df      == KeepAt(df_tx, S, 1)
        amounts == [i \in DOMAIN df |-> df[i].amount]
        dates   == SortAsc([i \in DOMAIN df |-> df[i].transaction_date])
    IN  [account_id       |-> a,
         avg_amount       |-> mean(amounts),
         std_amount       |-> std(amounts),
         tx_count         |-> Len(df),
         avg_delay_days   |-> avg_delay(dates),
         tx_count_per_day |-> Real(Len(df), total_days)]

\* the row of the model matrix taken from a feature record
MatrixRow(f, cols) == [k \in DOMAIN cols |-> f[cols[k]]]

\* the trained default model, a Pipeline(StandardScaler, LogisticRegression)
\* fitted on 4 columns: it refuses a matrix of another width and any NaN or
\* inf cell with ValueError, else gives a probability that is a function of
\* the row
predict_proba(x) ==
    IF Len(x) # Len(DefaultColumns) \/ \E k \in DOMAIN x : isna(x[k]) \/ isinf(x[k])
    THEN [status |-> "error", error |-> "ValueError", score |-> << >>]
    ELSE [status |-> "ok", error |-> "none", score |-> << "logreg_default", x >>]

\* ------------------------------------------------------------------------
\* pipeline.py
\* ------------------------------------------------------------------------
MaxRunTx    == 2   \* rows of transactions.csv in the pipeline specification
MaxRuns     == 2   \* runs of pipeline.py
MaxClock    == 1   \* seconds the wall clock can advance

\* the sections of the script, in the order of the file
Sections == << "run_etl", "default_scoring", "churn_prediction",
               "anomaly_detection", "summarize", "persist_report" >>

SectionAfterChurnDropped(sec) ==
    LET i == CHOOSE k \in DOMAIN Sections : Sections[k] = sec
    IN  IF i = Len(Sections) THEN "done"
        ELSE IF Sections[i + 1] = "churn_prediction" THEN Sections[i + 2]
        ELSE Sections[i + 1]

SectionAfter(sec) ==
    LET i == CHOOSE k \in DOMAIN Sections : Sections[k] = sec
    IN  IF i = Len(Sections) THEN "done" ELSE Sections[i + 1]

RECURSIVE SortedSeq(_)
\* the keys of a groupby, ascending
SortedSeq(S) ==
    IF S = {} THEN << >>
    ELSE LET m == CHOOSE x \in S : \A y \in S : x <= y
         IN  << m >> \o SortedSeq(S \ {m})

\* REPORT_DIR
REPORT_DIR == "data/reports"

ReportPath(t) == << REPORT_DIR, t >>

\* open(path, "w") followed by a write of content
WriteFile(fs, path, content) ==
    [p \in DOMAIN fs \cup {path} |-> IF p = path THEN content ELSE fs[p]]

\* python src/pipeline.py: a fresh process, nothing computed yet
StartRun ==
    /\ pc \in {"idle", "done", "failed"}
    /\ runs < MaxRuns
    /\ pc' = "run_etl"
    /\ history' = << >>
    /\ features_def' = << >> /\ features_churn' = << >>
    /\ df_anom' = << >> /\ report' = << >>
    /\ error' = [type |-> "none", stage |-> "none", cause |-> "none"]
    /\ runs' = runs + 1
    /\ prev_features_churn' = IF features_churn # << >> THEN features_churn
                              ELSE prev_features_churn
    /\ st_cache' = << >>
    /\ UNCHANGED << data_vars, scored, prev_scored, serve_vars, files, clock >>

Completed(sec) ==
    /\ pc' = SectionAfter(sec)
    /\ history' = Append(history, sec)

\* 1) ETL: etl.main() rebuilds every table from the raw files
run_etl ==
    /\ pc = "run_etl"
    /\ LET db == EtlTables(raw_accounts, raw_transactions, raw_kyc)
       IN  /\ dim_clients' = db.dim_clients
           /\ dim_accounts' = db.dim_accounts
           /\ dim_time' = db.dim_time
           /\ fact_transactions' = db.fact_transactions
    /\ Completed("run_etl")
    /\ UNCHANGED << raw_accounts, raw_transactions, raw_kyc, iso_raw, score_vars,
                    features_def, features_churn, df_anom, report, error,
                    runs, files, clock,
                    prev_features_churn, serve_vars >>

\* the values of column k of a matrix that are not NaN, in row order
ColumnValues(X, k) ==
    KeepAt([i \in DOMAIN X |-> X[i][k]], { i \in DOMAIN X : ~isna(X[i][k]) }, 1)

\* SimpleImputer(strategy="mean").fit_transform(X) refuses a matrix without
\* rows or with an inf cell
ImputerErrors(X, width) ==
    IF Len(X) = 0 \/ \E i \in DOMAIN X : \E k \in 1..width : isinf(X[i][k])
    THEN {"ValueError"} ELSE {}

\* fit_transform: a NaN cell becomes the mean of the other cells of its
\* column (kept as the list of the values averaged); a column with only NaN
\* cells is dropped from the result
fit_transform(X, width) ==
    LET kept == SortedSeq({ k \in 1..width : ColumnValues(X, k) # << >> })
    IN  [i \in DOMAIN X |->
            [j \in DOMAIN kept |->
                IF isna(X[i][kept[j]])
                THEN [mean_of |-> ColumnValues(X, kept[j])]
                ELSE X[i][kept[j]]]]

\* section 2 up to the imputer: the feature frame, one row per account_id of
\* fact_transactions in ascending order
AggregateDefault(df_tx, df_time) ==
    LET keys == SortedSeq({ df_tx[i].account_id : i \in DOMAIN df_tx })
    IN  [k \in DOMAIN keys |->
            DefaultFeatures(df_tx, nunique_dates(df_time), keys[k])]

X_def(features) == [i \in DOMAIN features |-> MatrixRow(features[i], DefaultColumns)]

\* the exceptions of section 2 for the tables read, none when it completes
DefaultScoringErrors(df_tx, df_time) ==
    LET X    == X_def(AggregateDefault(df_tx, df_time))
        errs == ImputerErrors(X, Len(DefaultColumns))
    IN  IF errs # {} THEN errs
        ELSE LET X_def_imputed == fit_transform(X, Len(DefaultColumns))
             IN  { predict_proba(X_def_imputed[i]).error : i \in DOMAIN X }
                    \ {"none"}

\* 2) Default scoring: the features of every account_id of
\* fact_transactions, imputed and scored by the trained classifier
default_scoring ==
    /\ pc = "default_scoring"
    /\ DefaultScoringErrors(fact_transactions, dim_time) = {}
    /\ LET features      == AggregateDefault(fact_transactions, dim_time)
           X_def_imputed == fit_transform(X_def(features), Len(DefaultColumns))
       IN  features_def' =
             [i \in DOMAIN features |->
                features[i] @@
                   [default_risk |-> predict_proba(X_def_imputed[i]).score]]
    /\ Completed("default_scoring")
    /\ UNCHANGED << data_vars, score_vars, features_churn, df_anom, report,
                    error, runs, files, clock,
                    prev_features_churn, serve_vars >>

\* df_tx.merge(df_acct, on="account_id", suffixes=("_tx", "_acct")) followed
\* by client_id = client_id_tx: the transactions of known accounts, each
\* with the columns of its account (dim_accounts has one row per account)
MergeAccounts(df_tx, df_acct) ==
    LET S  == { i \in DOMAIN df_tx :
                  \E j \in DOMAIN df_acct : df_acct[j].account_id = df_tx[i].account_id }
        tx == KeepAt(df_tx, S, 1)
    IN  [i \in DOMAIN tx |->
            LET acct == df_acct[CHOOSE j \in DOMAIN df_acct :
                                  df_acct[j].account_id = tx[i].account_id]
            IN  [transaction_id   |-> tx[i].transaction_id,
                 account_id       |-> tx[i].account_id,
                 amount           |-> tx[i].amount,
                 transaction_date |-> tx[i].transaction_date,
                 time_id          |-> tx[i].time_id,
                 client_id_tx     |-> tx[i].client_id,
                 client_id_acct   |-> acct.client_id,
                 opened_date      |-> acct.opened_date,
                 client_id        |-> tx[i].client_id]]

Min(S) == CHOOSE x \in S : \A y \in S : x <= y

Max(S) == CHOOSE x \in S : \A y \in S : y <= x

\* groupby("client_id").agg(...) for one client; both lambdas read the wall
\* clock (pd.Timestamp.today()) while they aggregate
ChurnFeatures(df_merge, today, c) ==
    LET S == { i \in DOMAIN df_merge : df_merge[i].client_id = c }
    IN  [client_id       |-> c,
         tenure_days     |-> DayOf(today) - Min({ df_merge[i].opened_date : i \in S }),
         avg_balance     |-> mean([i \in DOMAIN KeepAt(df_merge, S, 1) |->
                                     KeepAt(df_merge, S, 1)[i].amount]),
         total_tx_count  |-> Cardinality(S),
         days_since_last |->
            (today - Max({ df_merge[i].transaction_date : i \in S }))
               \div SecondsPerDay]

ChurnColumns == << "tenure_days", "avg_balance", "total_tx_count",
                  "days_since_last" >>

\* 3) Churn prediction: transactions joined with their account, one row per
\* client_id of the joined frame, scored by the trained booster (a function
\* of the row).  An empty join aggregates to columns that keep the date
\* dtype, which xgb.DMatrix refuses.
churn_prediction ==
    /\ pc = "churn_prediction"
    /\ Len(MergeAccounts(fact_transactions, dim_accounts)) > 0
    /\ LET df_merge == MergeAccounts(fact_transactions, dim_accounts)
           keys     == SortedSeq({ df_merge[i].client_id : i \in DOMAIN df_merge })
       IN  features_churn' =
             [k \in DOMAIN keys |->
                LET f == ChurnFeatures(df_merge, clock, keys[k])
                IN  f @@ [churn_risk |-> << "xgb_churn", MatrixRow(f, ChurnColumns) >>]]
    /\ Completed("churn_prediction")
    /\ UNCHANGED << data_vars, score_vars, features_def, df_anom, report,
                    error, runs, files, clock,
                    prev_features_churn, serve_vars >>

\* 4) Anomaly detection over load_data()
anomaly_detection ==
    /\ pc = "anomaly_detection"
    /\ LET df == load_data
       IN  /\ st_cache' = << df >>
           /\ \E res \in detect_anomalies(df, PipelineContamination) :
                 /\ res.status = "ok"
                 /\ df_anom' = res.rows
    /\ Completed("anomaly_detection")
    /\ UNCHANGED << data_vars, scored, prev_scored, features_def,
                    features_churn, report, error, runs, files, clock,
                    prev_features_churn, serve_vars >>

\* 5) and 6): the metrics are logged and the report dictionary is built
summarize ==
    /\ pc = "summarize"
    /\ report' =
         [timestamp            |-> clock,
          default_risk_summary |->
             [i \in DOMAIN features_def |->
                [account_id   |-> features_def[i].account_id,
                 default_risk |-> features_def[i].default_risk]],
          churn_risk_summary   |->
             [i \in DOMAIN features_churn |->
                [client_id  |-> features_churn[i].client_id,
                 churn_risk |-> features_churn[i].churn_risk]],
          anomalies            |-> Flagged(df_anom)]
    /\ Completed("summarize")
    /\ UNCHANGED << data_vars, score_vars, features_def, features_churn,
                    df_anom, error, runs, files, clock,
                    prev_features_churn, serve_vars >>

\* 6) the report is dumped to report_<UTC time>.json
persist_report ==
    /\ pc = "persist_report"
    /\ files' = WriteFile(files, ReportPath(clock),
                          [complete |-> TRUE, data |-> report])
    /\ Completed("persist_report")
    /\ UNCHANGED << data_vars, score_vars, features_def, features_churn,
                    df_anom, report, error, runs, clock,
                    prev_features_churn, serve_vars >>

\* the exceptions a section can raise
Raises(sec) ==
    CASE sec = "run_etl"           -> {"FileNotFoundError"}
      [] sec = "default_scoring"   -> {"ValueError"}
      [] sec = "churn_prediction"  -> {"ValueError"}
      [] sec = "anomaly_detection" -> {"OperationalError"}
      [] sec = "summarize"         -> {"MlflowException"}
      [] sec = "persist_report"    -> {"OSError"}

\* a section raises: nothing catches the exception, the interpreter prints
\* the traceback and exits.  When the report section raises, either open()
\* failed, or json.dump failed after open(path, "w") created or truncated
\* the file, which stays behind incomplete.
section_raises ==
    /\ pc \in { Sections[k] : k \in DOMAIN Sections }
    /\ \E e \in Raises(pc) :
          error' = [type |-> e, stage |-> "none", cause |-> "none"]
    /\ \E opened \in (IF pc = "persist_report" THEN BOOLEAN ELSE {FALSE}) :
          files' = IF opened
                   THEN WriteFile(files, ReportPath(clock),
                                  [complete |-> FALSE, data |-> << >>])
                   ELSE files
    /\ pc' = "failed"
    /\ UNCHANGED << data_vars, score_vars, history, features_def,
                    features_churn, df_anom, report, runs, clock,
                    prev_features_churn, serve_vars >>

\* a second passes.  The churn features, the report timestamp and the file
\* name read the clock; time is let pass before the last two reads only, so
\* the churn section of a run sees the time reached by the run before it.
Tick ==
    /\ pc \in {"summarize", "persist_report"}
    /\ clock < FirstRunAt + MaxClock
    /\ clock' = clock + 1
    /\ UNCHANGED << data_vars, score_vars, run_vars, serve_vars, files >>

\* accounts.csv with n rows, ids 1..n, the clients numbered in the order
\* in which their first account appears
RawAccounts(n) ==
    { a \in [1..n -> [account_id : 1..n, client_id : {1, 2}, opened_date : {1}]] :
        \A i \in 1..n : a[i].account_id = i /\ a[i].client_id <= i }

\* the forests of the pipeline specification: every feature row is either
\* the easiest or the hardest to isolate
RunForests(df_tx) == [FeatureRows(load_data_frame(df_tx)) -> {0, MaxScore}]

\* Before the first run: raw files in place, no datamart, no report
Init ==
    /\ \E n \in 0..Cardinality(AccountIds) : raw_accounts \in RawAccounts(n)
    /\ raw_kyc = << [client_id |-> 1], [client_id |-> 2] >>
    /\ \E n \in 0..MaxRunTx : raw_transactions \in RawTransactions(n)
    /\ dim_clients = << >> /\ dim_accounts = << >> /\ dim_time = << >>
    /\ fact_transactions = << >>
    /\ iso_raw \in RunForests(EtlTables(raw_accounts, raw_transactions,
                                        raw_kyc).fact_transactions)
    /\ st_cache = << >>
    /\ scored = NoCall
    /\ prev_scored = NoCall
    /\ etl_pc = "idle"
    /\ served = NoRequest
    /\ IdleRun

Next ==
    \/ StartRun
    \/ run_etl
    \/ default_scoring
    \/ churn_prediction
    \/ anomaly_detection
    \/ summarize
    \/ persist_report
    \/ section_raises
    \/ Tick

Spec == Init /\ [][Next]_vars

\* ------------------------------------------------------------------------
\* app.py: /score_default and /predict_churn
\* ------------------------------------------------------------------------
\* the columns of the two tables the handlers read
FactColumns    == {"transaction_id", "account_id", "amount", "transaction_date",
                   "time_id", "client_id"}
AccountColumns == {"account_id", "client_id", "opened_date"}

\* the columns of left.merge(right, on=on) with the default suffixes: a
\* column of both frames that is not a key appears twice, as c_x and c_y
merge_columns(left, right, on) ==
    LET both == (left \cap right) \ on
    IN  ((left \cup right) \ both)
           \cup { c \o "_x" : c \in both } \cup { c \o "_y" : c \in both }

\* the rows of df_tx.merge(df_acct, on="account_id")
merge(df_tx, df_acct) ==
    LET S  == { i \in DOMAIN df_tx :
                  \E j \in DOMAIN df_acct : df_acct[j].account_id = df_tx[i].account_id }
        tx == KeepAt(df_tx, S, 1)
    IN  [i \in DOMAIN tx |->
            LET acct == df_acct[CHOOSE j \in DOMAIN df_acct :
                                  df_acct[j].account_id = tx[i].account_id]
            IN  [transaction_id   |-> tx[i].transaction_id,
                 account_id       |-> tx[i].account_id,
                 amount           |-> tx[i].amount,
                 transaction_date |-> tx[i].transaction_date,
                 time_id          |-> tx[i].time_id,
                 client_id_x      |-> tx[i].client_id,
                 client_id_y      |-> acct.client_id,
                 opened_date      |-> acct.opened_date]]

\* the answer to a request whose handler raised before any model call
Raised(fn, id, http, e) ==
    [fn |-> fn, id |-> id, http |-> http, error |-> e, invoked |-> FALSE,
     tx_count |-> 0, total_days |-> Null, X |-> << >>, score |-> << >>]

\* POST /score_default: the features of one account, handed to the model as
\* they are aggregated.  HTTPException(404) when the account has no row; any
\* other exception of the handler is answered with 500.
score_default(account_id) ==
    LET df_tx      == fact_transactions
        df_time    == dim_time
        df         == KeepAt(df_tx, { i \in DOMAIN df_tx :
                                        df_tx[i].account_id = account_id }, 1)
        total_days == nunique_dates(df_time)
        X          == MatrixRow(DefaultFeatures(df_tx, total_days, account_id),
                                DefaultColumns)
        res        == predict_proba(X)
    IN  /\ pc = "idle"
        /\ served' =
              IF Len(df) = 0
              THEN Raised("score_default", account_id, 404, "HTTPException")
              ELSE [fn |-> "score_default", id |-> account_id,
                    http |-> IF res.status = "ok" THEN 200 ELSE 500,
                    error |-> res.error, invoked |-> TRUE,
                    tx_count |-> Len(df), total_days |-> total_days,
                    X |-> X, score |-> res.score]
        /\ UNCHANGED << data_vars, score_vars, run_vars, etl_pc, files, clock >>

\* POST /predict_churn: df_tx.merge(df_acct, on="account_id") is filtered
\* with query("client_id == ..."), which raises UndefinedVariableError when
\* the merged frame has no column of that name
predict_churn(client_id) ==
    LET columns == merge_columns(FactColumns, AccountColumns, {"account_id"})
        df_all  == merge(fact_transactions, dim_accounts)
        df      == KeepAt(df_all, { i \in DOMAIN df_all :
                                      df_all[i].client_id = client_id }, 1)
        X       == << DayOf(clock) - Min({ df[i].opened_date : i \in DOMAIN df }),
                      mean([i \in DOMAIN df |-> df[i].amount]),
                      Len(df),
                      (clock - Max({ df[i].transaction_date : i \in DOMAIN df }))
                         \div SecondsPerDay >>
    IN  /\ pc = "idle"
        /\ served' =
              IF "client_id" \notin columns
              THEN Raised("predict_churn", client_id, 500, "UndefinedVariableError")
              ELSE IF Len(df) = 0
              THEN Raised("predict_churn", client_id, 404, "HTTPException")
              ELSE [fn |-> "predict_churn", id |-> client_id, http |-> 200,
                    error |-> "none", invoked |-> TRUE, tx_count |-> Len(df),
                    total_days |-> Null, X |-> X, score |-> << "xgb_churn", X >>]
        /\ UNCHANGED << data_vars, score_vars, run_vars, etl_pc, files, clock >>

\* ------------------------------------------------------------------------
\* python src/etl.py beside a serving process
\* ------------------------------------------------------------------------
\* load_data replaces the tables one to_sql call at a time, in this order
EtlOrder == << "dim_clients", "dim_accounts", "dim_time", "fact_transactions" >>

\* extract and clean: the frames stay in memory, nothing is written yet
etl_main ==
    /\ etl_pc = "idle"
    /\ etl_pc' = EtlOrder[1]
    /\ UNCHANGED << data_vars, score_vars, run_vars, served, files, clock >>

\* df.to_sql(table, engine, if_exists="replace")
to_sql(table) ==
    LET db == EtlTables(raw_accounts, raw_transactions, raw_kyc)
        k  == CHOOSE i \in DOMAIN EtlOrder : EtlOrder[i] = table
    IN  /\ etl_pc = table
        /\ dim_clients' = IF table = "dim_clients" THEN db.dim_clients
                           ELSE dim_clients
        /\ dim_accounts' = IF table = "dim_accounts" THEN db.dim_accounts
                            ELSE dim_accounts
        /\ dim_time' = IF table = "dim_time" THEN db.dim_time ELSE dim_time
        /\ fact_transactions' = IF table = "fact_transactions"
                                 THEN db.fact_transactions ELSE fact_transactions
        /\ etl_pc' = IF k = Len(EtlOrder) THEN "idle" ELSE EtlOrder[k + 1]
        /\ UNCHANGED << raw_accounts, raw_transactions, raw_kyc, iso_raw,
                        score_vars, run_vars, served, files, clock >>

MaxApiTx == 2      \* rows of transactions.csv beside the serving process

\* A serving process over a datamart loaded from an earlier transactions.csv,
\* while the raw directory holds the current one.  No forest is grown: the
\* anomaly scorer is not called.
InitApi ==
    /\ raw_accounts = << [account_id |-> 1, client_id |-> 1, opened_date |-> 1],
                         [account_id |-> 2, client_id |-> 2, opened_date |-> 1] >>
    /\ raw_kyc = << [client_id |-> 1], [client_id |-> 2] >>
    /\ \E n \in 0..MaxApiTx : raw_transactions \in RawTransactions(n)
    /\ \E n \in 0..MaxApiTx : \E earlier \in RawTransactions(n) :
          LET db == EtlTables(raw_accounts, earlier, raw_kyc)
          IN  /\ dim_clients = db.dim_clients
              /\ dim_accounts = db.dim_accounts
              /\ dim_time = db.dim_time
              /\ fact_transactions = db.fact_transactions
    /\ iso_raw = << >>
    /\ st_cache = << >>
    /\ scored = NoCall
    /\ prev_scored = NoCall
    /\ etl_pc = "idle"
    /\ served = NoRequest
    /\ IdleRun

ClientIds == {1, 2}

NextApi ==
    \/ etl_main
    \/ \E k \in DOMAIN EtlOrder : to_sql(EtlOrder[k])
    \/ \E a \in AccountIds : score_default(a)
    \/ \E c \in ClientIds : predict_churn(c)

SpecApi == InitApi /\ [][NextApi]_vars

\* ------------------------------------------------------------------------
\* Properties of the anomaly scorer (SpecScore)
\* ------------------------------------------------------------------------
ScoreReturned == scored.fn = "detect_anomalies" /\ scored.status = "ok"

ScoresOf(rows) == [i \in DOMAIN rows |-> rows[i].anomaly_score]

NFlagged(rows) == Cardinality({ i \in DOMAIN rows : rows[i].is_anomaly })

\* the k-th smallest value of a vector, by counting
OrderStat(x, k) ==
    CHOOSE v \in { x[i] : i \in DOMAIN x } :
        /\ Cardinality({ i \in DOMAIN x : x[i] < v }) < k
        /\ Cardinality({ i \in DOMAIN x : x[i] <= v }) >= k

\* the (qn / CDen)-quantile of a vector with linear interpolation between
\* the two neighbouring order statistics, times CDen
QuantileOf(x, qn) ==
    LET n   == Len(x)
        pos == (n - 1) * qn
        lo  == pos \div CDen
        a   == OrderStat(x, lo + 1)
        b   == OrderStat(x, IF lo + 2 <= n THEN lo + 2 ELSE n)
    IN  CDen * a + (pos % CDen) * (b - a)

\* C1: whenever detect_anomalies returns for a non-empty transaction set, a
\* transaction is flagged is_anomaly exactly when its anomaly_score is greater
\* than or equal to the (1 - contamination)-quantile of all anomaly scores of
\* that run, so every transaction tied with the threshold is flagged.
C1_FlagIffScoreAtLeastQuantile ==
    (ScoreReturned /\ Len(scored.input) > 0) =>
        LET q == QuantileOf(ScoresOf(scored.rows), CDen - scored.contamination)
        IN  /\ Len(scored.rows) = Len(scored.input)
            /\ \A i \in DOMAIN scored.rows :
                  scored.rows[i].is_anomaly <=>
                     CDen * scored.rows[i].anomaly_score >= q

\* two transactions tied with the threshold are flagged, another one is not
C1_Witness ==
    /\ ScoreReturned
    /\ \E i, j, k \in DOMAIN scored.rows :
          /\ i # j
          /\ scored.rows[i].anomaly_score = scored.rows[j].anomaly_score
          /\ CDen * scored.rows[i].anomaly_score =
                QuantileOf(ScoresOf(scored.rows), CDen - scored.contamination)
          /\ scored.rows[i].is_anomaly /\ scored.rows[j].is_anomaly
          /\ ~scored.rows[k].is_anomaly

\* the scores tied with the lowest flagged score: the tie-group at the
\* quantile boundary
BoundaryTieGroup(rows) ==
    LET F == { i \in DOMAIN rows : rows[i].is_anomaly }
        b == CHOOSE i \in F : \A j \in F : rows[i].anomaly_score <= rows[j].anomaly_score
    IN  IF F = {} THEN 0
        ELSE Cardinality({ i \in DOMAIN rows :
                             rows[i].anomaly_score = rows[b].anomaly_score })

\* C2: for a valid contamination c and N transactions, the number of flagged
\* transactions differs from c x N by at most the size of the tie-group of
\* scores at the quantile boundary.
C2_FlaggedWithinTieGroupOfCN ==
    (ScoreReturned /\ ContaminationValid(scored.contamination)) =>
        LET d == CDen * NFlagged(scored.rows)
                   - scored.contamination * Len(scored.rows)
        IN  Abs(d) <= CDen * BoundaryTieGroup(scored.rows)

\* ties at the boundary push the flagged count more than one above c x N
C2_Witness ==
    /\ ScoreReturned
    /\ ContaminationValid(scored.contamination)
    /\ \E i \in DOMAIN scored.rows : ~scored.rows[i].is_anomaly
    /\ CDen * NFlagged(scored.rows)
          - scored.contamination * Len(scored.rows) > CDen

\* C3: for a fixed transaction set, a successful detect_anomalies call with a
\* larger contamination never flags fewer transactions than one with a smaller
\* contamination.
C3_FlaggedCountMonotone ==
    (ScoreReturned /\ prev_scored.fn = "detect_anomalies"
       /\ prev_scored.input = scored.input) =>
        /\ prev_scored.contamination <= scored.contamination =>
              NFlagged(prev_scored.rows) <= NFlagged(scored.rows)
        /\ prev_scored.contamination >= scored.contamination =>
              NFlagged(prev_scored.rows) >= NFlagged(scored.rows)

\* raising the contamination on the same data flagged strictly more
C3_Witness ==
    /\ ScoreReturned /\ prev_scored.fn = "detect_anomalies"
    /\ prev_scored.input = scored.input
    /\ prev_scored.contamination < scored.contamination
    /\ NFlagged(prev_scored.rows) < NFlagged(scored.rows)

\* C4: a scoring request (detect_anomalies or the /detect_anomaly endpoint)
\* whose contamination is outside (0, 0.5] fails with InvalidParameterError
\* and returns no anomaly results.
C4_InvalidContaminationRejected ==
    (scored.fn # "none" /\ ~ContaminationValid(scored.contamination)) =>
        /\ scored.status = "error"
        /\ scored.error = "InvalidParameterError"
        /\ scored.rows = << >>

\* C5: scoring an empty transaction set fails with EmptyInputError; no result
\* list is returned and no error of the model or of the quantile computation
\* escapes in its place.
C5_EmptyInputRejected ==
    (scored.fn # "none" /\ Len(scored.input) = 0) =>
        /\ scored.status = "error"
        /\ scored.error = "EmptyInputError"

\* C6: with at least 1 and fewer than 10 transactions and a valid
\* contamination, scoring degrades to "all normal": nothing is flagged.
C6_SmallSetAllNormal ==
    (scored.fn # "none" /\ ContaminationValid(scored.contamination)
       /\ Len(scored.input) >= 1 /\ Len(scored.input) < 10) =>
        /\ scored.status = "ok"
        /\ \A i \in DOMAIN scored.rows : ~scored.rows[i].is_anomaly

\* ------------------------------------------------------------------------
\* Properties of the orchestrator (Spec)
\* ------------------------------------------------------------------------
IsPrefix(h, q) == Len(h) <= Len(q) /\ \A i \in DOMAIN h : h[i] = q[i]

Running == pc \in { Sections[k] : k \in DOMAIN Sections }

\* C7: in every run the stages happen in the fixed order Load,
\* Aggregate(default), Aggregate(churn), Score(anomaly), Summarize,
\* Persist-report: each stage starts only when the previous one has completed,
\* none is skipped or repeated, and a report file is written only after all
\* earlier stages completed.
C7_StagesInFixedOrder ==
    [][ /\ IsPrefix(history', Sections)
        /\ Running' => pc' = Sections[Len(history') + 1]
        /\ pc' = "done" => history' = Sections
        /\ history' # history =>
              \/ history' = << >>
              \/ /\ Running
                 /\ history' = Append(history, pc)
        /\ files' # files =>
              /\ pc = "persist_report"
              /\ history = SubSeq(Sections, 1, Len(Sections) - 1) ]_vars

\* a run went through all six stages
C7_Witness == pc = "done" /\ history = Sections /\ DOMAIN files # {}

\* C8: if any stage of a run fails, the run halts, no complete or partial
\* report file is written for that run, and the error surfaced is a
\* structured StageFailure carrying the failing stage's name and the cause.
C8_FailureIsStageFailureWithoutReport ==
    [][ (pc' = "failed" /\ pc # "failed") =>
           /\ files' = files
           /\ error'.type = "StageFailure"
           /\ error'.stage = pc
           /\ error'.cause # "none" ]_vars

ReportKeys == {"timestamp", "default_risk_summary", "churn_risk_summary",
               "anomalies"}

\* every row of the table has exactly one record of the summary
OneRecordPerAccount(summary, accounts) ==
    \A j \in DOMAIN accounts :
        Cardinality({ i \in DOMAIN summary :
                        summary[i].account_id = accounts[j].account_id }) = 1

OneRecordPerClient(summary, clients) ==
    \A j \in DOMAIN clients :
        Cardinality({ i \in DOMAIN summary :
                        summary[i].client_id = clients[j].client_id }) = 1

C10_ReportWhereTheTestLooks ==
    pc = "done" =>
        LET R == { p \in DOMAIN files : p[1] = "reports" }
        IN  /\ R # {}
            /\ LET latest == CHOOSE p \in R : \A q \in R : q[2] <= p[2]
                   r      == files[latest].data
               IN  /\ {"default_scoring", "churn_prediction",
                        "anomaly_detection"} \subseteq DOMAIN r
                   /\ {"auc", "accuracy"} \subseteq DOMAIN r.default_scoring
                   /\ {"auc", "accuracy"} \subseteq DOMAIN r.churn_prediction
                   /\ DOMAIN r.anomaly_detection \subseteq STRING

\* C11: re-running is idempotent and the report log is append-only: each
\* completed run adds one new report file to the log, and every report file
\* written by an earlier run still exists with unchanged content.
C11_ReportLogAppendOnly ==
    [][ (pc' = "done" /\ pc # "done") =>
           /\ Cardinality(DOMAIN files') = Cardinality(DOMAIN files) + 1
           /\ \A p \in DOMAIN files :
                 p \in DOMAIN files' /\ files'[p] = files[p] ]_vars

\* ------------------------------------------------------------------------
\* /detect_anomaly beside an ETL load (SpecReload)
\* ------------------------------------------------------------------------
\* contamination values of the requests: the default and the largest valid
ReloadContaminations == {PipelineContamination, 50}

\* A serving process over a datamart loaded from an earlier transactions.csv,
\* while the raw directory holds the current one; the forest gives a raw
\* score, the lowest or the highest, to every feature row of both tables
InitReload ==
    /\ raw_accounts = << [account_id |-> 1, client_id |-> 1, opened_date |-> 1],
                         [account_id |-> 2, client_id |-> 2, opened_date |-> 1] >>
    /\ raw_kyc = << [client_id |-> 1], [client_id |-> 2] >>
    /\ \E n \in 0..MaxApiTx : raw_transactions \in RawTransactions(n)
    /\ \E n \in 0..MaxApiTx : \E earlier \in RawTransactions(n) :
          LET db == EtlTables(raw_accounts, earlier, raw_kyc)
          IN  /\ dim_clients = db.dim_clients
              /\ dim_accounts = db.dim_accounts
              /\ dim_time = db.dim_time
              /\ fact_transactions = db.fact_transactions
    /\ iso_raw \in
          [FeatureRows(load_data_frame(fact_transactions)) \cup
             FeatureRows(load_data_frame(
                EtlTables(raw_accounts, raw_transactions, raw_kyc).fact_transactions))
           -> {0, MaxScore}]
    /\ st_cache = << >>
    /\ scored = NoCall
    /\ prev_scored = NoCall
    /\ etl_pc = "idle"
    /\ served = NoRequest
    /\ IdleRun

NextReload ==
    \/ etl_main
    \/ \E k \in DOMAIN EtlOrder : to_sql(EtlOrder[k])
    \/ \E cn \in ReloadContaminations : detect_anomaly(cn)

SpecReload == InitReload /\ [][NextReload]_vars

\* C12: when the transactions table is replaced by a fresh ETL load, every
\* scoring request that starts after the replacement reads the table again:
\* the frame a request scores (its rows and their tx_per_account) is the
\* table as it is when the request is served, never rows read before an
\* earlier request boundary.
C12_RequestsReadTheTableAgain ==
    [][ scored' # scored =>
           scored'.input = load_data_frame(fact_transactions) ]_vars

\* ------------------------------------------------------------------------
\* Properties of the request handlers (SpecApi)
\* ------------------------------------------------------------------------
TransactionsOf(a) ==
    { i \in DOMAIN fact_transactions : fact_transactions[i].account_id = a }

\* position of a column in the default-model matrix
Col(name) == CHOOSE k \in DOMAIN DefaultColumns : DefaultColumns[k] = name

\* C13: for every entity with exactly one transaction, aggregation yields
\* tx_count = 1, avg_amount equal to that transaction's amount, and null (not
\* zero) std_amount and avg_delay_days.
C13_SingleTransactionEntity ==
    [][ (served' # served /\ served'.fn = "score_default"
           /\ Cardinality(TransactionsOf(served'.id)) = 1) =>
           LET t == fact_transactions[CHOOSE i \in TransactionsOf(served'.id) : TRUE]
           IN  /\ served'.tx_count = 1
               /\ served'.X[Col("avg_amount")] = [num |-> t.amount, den |-> 1, root |-> 1]
               /\ served'.X[Col("std_amount")] = NaN
               /\ served'.X[Col("avg_delay_days")] = NaN
               /\ served'.X[Col("std_amount")] # [num |-> 0, den |-> 1, root |-> 1] ]_vars

\* the features of an account with a single transaction of amount 2 were
\* aggregated
C13_Witness ==
    /\ served.fn = "score_default" /\ served.tx_count = 1
    /\ Cardinality(TransactionsOf(served.id)) = 1
    /\ served.X[Col("avg_amount")] = [num |-> 2, den |-> 1, root |-> 1]
    /\ isna(served.X[Col("std_amount")])
    /\ isna(served.X[Col("avg_delay_days")])

\* the joined transactions of a client
TransactionsOfClient(c) ==
    { i \in DOMAIN fact_transactions :
        /\ fact_transactions[i].client_id = c
        /\ \E j \in DOMAIN dim_accounts :
              dim_accounts[j].account_id = fact_transactions[i].account_id }

\* C14: a per-entity scoring request for an id that has no transactions
\* (score_default for an account, predict_churn for a client) ends with a
\* not-found error (HTTP 404); the classifier is never invoked and no score
\* is returned.
C14_MissingEntityIsNotFound ==
    [][ (served' # served /\
           \/ served'.fn = "score_default" /\ TransactionsOf(served'.id) = {}
           \/ served'.fn = "predict_churn" /\ TransactionsOfClient(served'.id) = {}) =>
           /\ served'.http = 404
           /\ ~served'.invoked
           /\ served'.score = << >> ]_vars

\* ------------------------------------------------------------------------
\* Properties of the batch aggregation (Spec)
\* ------------------------------------------------------------------------
\* C15: batch aggregation fails loudly when an entity has zero transactions:
\* if some account of the accounts table (or some client of the clients
\* table) owns no transaction, the run aborts instead of producing a
\* default-risk or churn-risk summary without that entity.
C15_ZeroTransactionEntityAborts ==
    [][ /\ (pc = "default_scoring" /\ pc' = SectionAfter("default_scoring")) =>
              \A j \in DOMAIN dim_accounts :
                  TransactionsOf(dim_accounts[j].account_id) # {}
        /\ (pc = "churn_prediction" /\ pc' = SectionAfter("churn_prediction")) =>
              \A j \in DOMAIN dim_clients :
                  TransactionsOfClient(dim_clients[j].client_id) # {} ]_vars

\* C16: when the time dimension has zero distinct days and there is at least
\* one transaction, computing tx_count_per_day = tx_count / total_distinct_days
\* raises DivisionError; no NaN or infinite tx_count_per_day ever reaches the
\* classifier.
C16_ZeroDaysRaisesDivisionError ==
    [][ (served' # served /\ served'.fn = "score_default") =>
           /\ (TransactionsOf(served'.id) # {} /\ nunique_dates(dim_time) = 0) =>
                 /\ served'.error = "DivisionError"
                 /\ ~served'.invoked
           /\ served'.invoked =>
                 /\ ~isna(served'.X[Col("tx_count_per_day")])
                 /\ ~isinf(served'.X[Col("tx_count_per_day")]) ]_vars

\* C17: every feature vector handed to a trained classifier has all nulls
\* already imputed: whenever a request calls the default or the churn model,
\* no feature passed to it is null, including for an entity with exactly one
\* transaction.
C17_NoNullReachesTheModel ==
    served.invoked =>
        /\ served.fn = "score_default" =>
              \A k \in DOMAIN served.X : ~isna(served.X[k])
        /\ served.fn = "predict_churn" =>
              ~isna(served.X[CHOOSE k \in DOMAIN ChurnColumns :
                                ChurnColumns[k] = "avg_balance"])

\* the feature vectors of a churn frame, without the model's output
FeatureVectors(features) ==
    [i \in DOMAIN features |->
        << features[i].client_id, MatrixRow(features[i], ChurnColumns) >>]

\* C18: aggregation idempotence: running the churn aggregation twice on the
\* same tables yields identical feature vectors for every entity, whatever
\* the wall-clock time of each execution (tenure_days and days_since_last
\* come from one injected now, not from clock reads made while aggregating).
C18_AggregationIdempotent ==
    (features_churn # << >> /\ prev_features_churn # << >>) =>
        FeatureVectors(features_churn) = FeatureVectors(prev_features_churn)

\* ------------------------------------------------------------------------
\* python src/etl.py on arbitrary raw files (SpecEtl)
\* ------------------------------------------------------------------------
MaxEtlTx == 2      \* rows of transactions.csv in the ETL specification

\* amounts as they come in the raw file, debits negative
RawAmounts == {-1, 1}

\* all the frames of at most n rows whose rows are drawn from Rows
Frames(Rows, n) == UNION { [1..k -> Rows] : k \in 0..n }

\* Raw files with repeated keys, negative amounts and references to
\* accounts or clients that the other files do not list; no datamart yet
InitEtl ==
    /\ raw_accounts \in Frames([account_id : AccountIds, client_id : ClientIds,
                                opened_date : {1}], Cardinality(AccountIds))
    /\ raw_kyc \in Frames([client_id : ClientIds], Cardinality(ClientIds))
    /\ raw_transactions \in Frames([transaction_id : 1..2, account_id : AccountIds,
                                    amount : RawAmounts,
                                    transaction_date : {Midnight(1)}],
                                   MaxEtlTx)
    /\ dim_clients = << >> /\ dim_accounts = << >> /\ dim_time = << >>
    /\ fact_transactions = << >>
    /\ iso_raw = << >>
    /\ st_cache = << >>
    /\ scored = NoCall
    /\ prev_scored = NoCall
    /\ etl_pc = "idle"
    /\ served = NoRequest
    /\ IdleRun

NextEtl ==
    \/ etl_main
    \/ \E k \in DOMAIN EtlOrder : to_sql(EtlOrder[k])

SpecEtl == InitEtl /\ [][NextEtl]_vars

\* the values of a key column
Keys(df, key) == { df[i][key] : i \in DOMAIN df }

\* at most one row per key, and every key of the input still there
UniqueKeys(cleaned, raw, key) ==
    /\ \A i, j \in DOMAIN cleaned : cleaned[i][key] = cleaned[j][key] => i = j
    /\ Keys(cleaned, key) = Keys(raw, key)

\* C19: after cleaning, keys are unique and amounts are non-negative:
\* clean_accounts, clean_transactions and clean_kyc each return at most one
\* row per account_id, transaction_id and client_id (the number of distinct
\* keys is preserved), and every amount returned by clean_transactions is
\* >= 0 and equals the absolute value of the input amount.
C19_CleanedKeysUniqueAmountsAbs ==
    [][ /\ dim_accounts' # dim_accounts =>
              UniqueKeys(dim_accounts', raw_accounts, "account_id")
        /\ dim_clients' # dim_clients =>
              UniqueKeys(dim_clients', raw_kyc, "client_id")
        /\ fact_transactions' # fact_transactions =>
              /\ UniqueKeys(fact_transactions', raw_transactions, "transaction_id")
              /\ \A i \in DOMAIN fact_transactions' :
                    LET t == fact_transactions'[i]
                        S == { j \in DOMAIN raw_transactions :
                                 raw_transactions[j].transaction_id = t.transaction_id }
                        first == CHOOSE j \in S : \A k \in S : j <= k
                    IN  /\ t.amount >= 0
                        /\ \/ t.amount = raw_transactions[first].amount
                           \/ t.amount = 0 - raw_transactions[first].amount ]_vars

\* a load from files that repeat an account, a client and a transaction and
\* hold a negative amount left fewer rows than the files have, amounts >= 0
C19_Witness ==
    /\ Len(dim_accounts) > 0 /\ Len(dim_accounts) < Len(raw_accounts)
    /\ Len(dim_clients) > 0 /\ Len(dim_clients) < Len(raw_kyc)
    /\ Len(fact_transactions) > 0
    /\ Len(fact_transactions) < Len(raw_transactions)
    /\ \E j \in DOMAIN raw_transactions : raw_transactions[j].amount < 0
    /\ \A i \in DOMAIN fact_transactions : fact_transactions[i].amount > 0

\* C20: after any ETL load, the datamart satisfies referential integrity:
\* every row of the transactions table has an account_id that exists in the
\* accounts table (and so a non-null client_id), and every row of the
\* accounts table has a client_id that exists in the clients table.
C20_ReferentialIntegrity ==
    [][ (etl_pc # "idle" /\ etl_pc' = "idle") =>
           /\ \A i \in DOMAIN fact_transactions' :
                 /\ fact_transactions'[i].account_id
                       \in Keys(dim_accounts', "account_id")
                 /\ fact_transactions'[i].client_id # Null
           /\ \A j \in DOMAIN dim_accounts' :
                 dim_accounts'[j].client_id \in Keys(dim_clients', "client_id") ]_vars

\* ------------------------------------------------------------------------
\* /score_default over transactions spread in time (SpecDelay)
\* ------------------------------------------------------------------------
MaxDelayTx  == 3   \* rows of transactions.csv in the delay specification
MaxHalfDays == 3   \* the latest timestamp, in half days after 00:00 of day 1

\* timestamps at 00:00 and 12:00 of consecutive days
DelayTimestamps ==
    { Midnight(1) + k * (SecondsPerDay \div 2) : k \in 0..MaxHalfDays }

\* transactions.csv with n rows, ids 1..n, in any order of time
TimedTransactions(n) ==
    { tx \in [1..n -> [transaction_id : 1..n, account_id : AccountIds,
                       amount : {1}, transaction_date : DelayTimestamps]] :
        \A i \in 1..n : tx[i].transaction_id = i }

\* A serving process over the datamart loaded from such a file
InitDelay ==
    /\ raw_accounts = << [account_id |-> 1, client_id |-> 1, opened_date |-> 1],
                         [account_id |-> 2, client_id |-> 2, opened_date |-> 1] >>
    /\ raw_kyc = << [client_id |-> 1], [client_id |-> 2] >>
    /\ \E n \in 0..MaxDelayTx : raw_transactions \in TimedTransactions(n)
    /\ LET db == EtlTables(raw_accounts, raw_transactions, raw_kyc)
       IN  /\ dim_clients = db.dim_clients
           /\ dim_accounts = db.dim_accounts
           /\ dim_time = db.dim_time
           /\ fact_transactions = db.fact_transactions
    /\ iso_raw = << >>
    /\ st_cache = << >>
    /\ scored = NoCall
    /\ prev_scored = NoCall
    /\ etl_pc = "idle"
    /\ served = NoRequest
    /\ IdleRun

NextDelay == \E a \in AccountIds : score_default(a)

SpecDelay == InitDelay /\ [][NextDelay]_vars

\* C21: for every entity with n >= 2 transactions sorted by timestamp,
\* avg_delay_days equals the mean of the n - 1 differences between
\* consecutive timestamps expressed in days, that is (latest timestamp -
\* earliest timestamp) in days divided by (n - 1); with fewer than 2
\* transactions it is null.
C21_AvgDelayIsSpanOverCount ==
    (served.fn = "score_default" /\ served.invoked) =>
        LET ts == { fact_transactions[i].transaction_date :
                      i \in TransactionsOf(served.id) }
            n  == Cardinality(TransactionsOf(served.id))
        IN  served.X[Col("avg_delay_days")] =
               IF n >= 2
               THEN Real(Max(ts) - Min(ts), (n - 1) * SecondsPerDay)
               ELSE NaN

\* ------------------------------------------------------------------------
\* The scored frame
\* ------------------------------------------------------------------------
\* the columns that load_data and detect_anomalies add to the table
AddedColumns == {"tx_per_account", "anomaly_score", "is_anomaly"}

\* the scored records of the loaded transaction t
ScoredOf(t) ==
    { i \in DOMAIN scored.rows :
        scored.rows[i].transaction_id = t.transaction_id }

\* C22: in every scored record tx_per_account is the number of transactions
\* of the full loaded set with the record's account_id; the scored output
\* holds exactly one record per loaded transaction, with the transaction's
\* own fields unchanged and only tx_per_account, anomaly_score and
\* is_anomaly added.
C22_ScoredFrameIsTablePlusThreeColumns ==
    (scored.fn = "detect_anomalies" /\ scored.status = "ok") =>
        /\ Len(scored.rows) = Len(fact_transactions)
        /\ \A k \in DOMAIN fact_transactions :
              LET t == fact_transactions[k]
              IN  /\ Cardinality(ScoredOf(t)) = 1
                  /\ \A i \in ScoredOf(t) :
                        LET r == scored.rows[i]
                        IN  /\ DOMAIN r = DOMAIN t \cup AddedColumns
                            /\ \A f \in DOMAIN t : r[f] = t[f]
                            /\ r.tx_per_account =
                                 Cardinality({ j \in DOMAIN fact_transactions :
                                     fact_transactions[j].account_id = t.account_id })

\* a scored frame of two accounts with different numbers of transactions
C22_Witness ==
    /\ scored.fn = "detect_anomalies"
    /\ scored.status = "ok"
    /\ Len(scored.rows) = Len(fact_transactions)
    /\ \E i, j \in DOMAIN scored.rows :
          /\ scored.rows[i].account_id # scored.rows[j].account_id
          /\ scored.rows[i].tx_per_account = 1
          /\ scored.rows[j].tx_per_account >= 2

\* ------------------------------------------------------------------------
\* anomaly.py: the Streamlit page (SpecDash)
\* ------------------------------------------------------------------------
\* st.slider(min_value=0.01, max_value=0.20, step=0.01), in hundredths
Slider == 1..20

\* .head(20)
TableRows == 20

\* int(len(df_result) * contamination), capped at 20
HeadingCount(df_result, cn) ==
    LET k == (Len(df_result) * cn) \div CDen
    IN  IF k < TableRows THEN k ELSE TableRows

\* one run of the page script: load, score, heading and table; an exception
\* of detect_anomalies ends the script before the heading is written
main(cn) ==
    LET df == load_data
    IN  /\ pc = "idle"
        /\ st_cache' = << df >>
        /\ \E res \in detect_anomalies(df, cn) :
              scored' = [fn |-> "main", contamination |-> cn, input |-> df,
                         status |-> res.status, error |-> res.error,
                         http |-> 0, rows |-> res.rows,
                         heading |-> IF res.status = "ok"
                                     THEN HeadingCount(res.rows, cn) ELSE Null,
                         table |-> IF res.status = "ok"
                                   THEN HeadN(SortDesc(Flagged(res.rows)), TableRows)
                                   ELSE << >>]
        /\ Remember
        /\ UNCHANGED << data_vars, run_vars, serve_vars, files, clock >>

\* every move of the slider runs the script again
NextDash == \E cn \in Slider : main(cn)

SpecDash == InitScore /\ [][NextDash]_vars

\* the table holds the (at most 20) highest-scoring flagged records, in
\* descending order of score
TableIsTopFlagged ==
    LET flagged == { i \in DOMAIN scored.rows : scored.rows[i].is_anomaly }
        shown   == { scored.table[k].transaction_id : k \in DOMAIN scored.table }
    IN  /\ Len(scored.table) = IF Cardinality(flagged) < TableRows
                               THEN Cardinality(flagged) ELSE TableRows
        /\ \A k \in DOMAIN scored.table :
              \E i \in flagged : scored.rows[i] = scored.table[k]
        /\ \A k \in DOMAIN scored.table : \A l \in DOMAIN scored.table :
              k < l => scored.table[k].anomaly_score >= scored.table[l].anomaly_score
        /\ \A i \in flagged : \A k \in DOMAIN scored.table :
              scored.rows[i].transaction_id \notin shown =>
                  scored.rows[i].anomaly_score <= scored.table[k].anomaly_score

\* C23: for every transaction set and every slider value, the number N of
\* the heading "Top N Anomalous Transactions" equals the number of rows of
\* the table below it, and these rows are the (at most 20) highest-scoring
\* flagged transactions in descending order of score.
C23_HeadingCountsTableRows ==
    (scored.fn = "main" /\ scored.status = "ok") =>
        /\ scored.heading = Len(scored.table)
        /\ TableIsTopFlagged

====
